---- MODULE Spec2Model ----
(***************************************************************************)
(* Verification model of common/normSegment.cpp: the NormBlockBuffer      *)
(* (hashed sliding window of blocks, with its Iterator and its Destroy),  *)
(* the NormBlock sender-side repair state (TxReset, TxUpdate,             *)
(* HandleSegmentRequest, ActivateRepairs), the NormBlock receiver side    *)
(* (IsRepairPending, AppendRepairRequest, AppendRepairAdv) and the        *)
(* NormSegmentPool.                                                        *)
(***************************************************************************)
EXTENDS Integers, Sequences, FiniteSets, TLC

(***************************************************************************)
(* Bounds of the model.                                                    *)
(***************************************************************************)
MaxId == 6           \* block ids are drawn from 0..MaxId
MaxRangeMax == 6     \* NormBlockBuffer::Init is called with rangeMax in 1..MaxRangeMax
MaxTableSize == 25   \* ... and with tableSize in 1..MaxTableSize
MaxExtraCalls == 2   \* GetNextBlock calls made beyond one per live block
MaxSize == 3         \* blocks have numData >= 1 and numData + numParity <= MaxSize
MaxRxSize == 6       \* receiver blocks have at most MaxRxSize symbols
MaxCount == 2        \* NormSegmentPool::Init is called with count in 0..MaxCount
MaxGets == 6         \* at most MaxGets calls of Get are made between two Inits

Ids == 0..MaxId

\* The NULL block pointer (block pointers are modelled by the block's id).
NULL == -1

\* The NULL table pointer of a buffer that is not initialised.
NullTable == << >>

(***************************************************************************)
(* UINT32 arithmetic.  The model checker's integers are 32 bit signed, so *)
(* the unsigned word is modelled with 30 bits; every id, mask and count   *)
(* of the model is far below that.                                         *)
(***************************************************************************)
WordMod == 2^30

U32(x) == x % WordMod

RECURSIVE BitAnd(_, _)
BitAnd(a, b) ==
    IF a = 0 \/ b = 0 THEN 0
    ELSE (a % 2) * (b % 2) + 2 * BitAnd(a \div 2, b \div 2)

\* x >> 3
Shr3(x) == x \div 8

VARIABLES
    table,      \* NormBlockBuffer::table: bucket -> chain of block ids (NullTable when NULL)
    hash_mask,  \* NormBlockBuffer::hash_mask
    range_max,  \* NormBlockBuffer::range_max
    range,      \* NormBlockBuffer::range
    range_lo,   \* NormBlockBuffer::range_lo
    range_hi,   \* NormBlockBuffer::range_hi
    reset,      \* Iterator::reset
    index,      \* Iterator::index
    iterating,  \* an Iterator over the buffer exists
    yielded,    \* results of the GetNextBlock calls made on the Iterator so far
    live,       \* ids inserted by a successful Insert and not removed since
    last,       \* the last call made on the buffer: [op, arg, ret, undo]
    spin,       \* a call is stuck in a bucket scan that does not reach its end
    size,           \* NormBlock::size
    pending_mask,   \* NormBlock::pending_mask: the set of the bits that are set
    repair_mask,    \* NormBlock::repair_mask
    erasure_count,  \* NormBlock::erasure_count
    parity_count,   \* NormBlock::parity_count
    parity_offset,  \* NormBlock::parity_offset
    in_repair,      \* the IN_REPAIR flag of NormBlock::flags
    numData,        \* the numData the block's owner passes to every call
    numParity,      \* the numParity the block's owner passes to every call
    call,           \* the last call made on the block: [op, ret, autoParity, repeat]
    msg,            \* what the last AppendRepairRequest or AppendRepairAdv did to its message
    committed,      \* a true TxReset or an explicit data request was made, and no TxReset since
    seg_size,       \* NormSegmentPool::seg_size
    seg_count,      \* NormSegmentPool::seg_count
    seg_total,      \* NormSegmentPool::seg_total
    seg_list,       \* NormSegmentPool::seg_list: the free segments, head first
    peak_usage,     \* NormSegmentPool::peak_usage
    overruns,       \* NormSegmentPool::overruns
    overrun_flag,   \* NormSegmentPool::overrun_flag
    held,           \* the segments Get has handed out and Put has not taken back, in order
    gets,           \* for each Get made since the pool's last Init: TRUE when it returned a segment
    starved,        \* the last Get made on the pool returned no segment
    pool_call       \* the last call made on the pool, and the last Init: [op, ret, count, inited]

bufVars == <<table, hash_mask, range_max, range, range_lo, range_hi>>
iterVars == <<reset, index, iterating, yielded>>
histVars == <<live, last, spin>>
blockVars == <<size, pending_mask, repair_mask, erasure_count, parity_count,
               parity_offset, in_repair>>
sessionVars == <<numData, numParity, call, msg, committed>>
poolVars == <<seg_size, seg_count, seg_total, seg_list, peak_usage, overruns,
              overrun_flag, held, gets, starved, pool_call>>

\* The buffer's fields as one value.
Buf ==
    [table |-> table, hash_mask |-> hash_mask, range_max |-> range_max,
     range |-> range, range_lo |-> range_lo, range_hi |-> range_hi]

(***************************************************************************)
(* NormBlockBuffer::Init                                                   *)
(***************************************************************************)
\* line 698: the table size Init allocates for a requested tableSize
InitTableSize(tableSize) ==
    IF BitAnd(tableSize, 7) # 0 THEN Shr3(tableSize) + 1 ELSE tableSize

\* Init(rangeMax, tableSize) on a buffer whose table is NULL; allocation succeeds.
BufferInit(b, rangeMax, tableSize) ==
    IF rangeMax = 0 \/ tableSize = 0
    THEN [ret |-> FALSE, buf |-> b]
    ELSE LET allocSize == InitTableSize(tableSize)
         IN  [ret |-> TRUE,
              buf |-> [b EXCEPT !.table = [i \in 0..(allocSize - 1) |-> << >>],
                                !.hash_mask = allocSize - 1,
                                !.range_max = rangeMax,
                                !.range = 0]]

(***************************************************************************)
(* Bucket chains: a chain is the sequence of the ids of the blocks linked *)
(* through NormBlock::next, head first.                                    *)
(***************************************************************************)
\* line 735, 799, 825: the bucket of a block id
Hash(blockId, mask) == BitAnd(U32(blockId), mask)

\* lines 736-738: walk a chain until the id is met
RECURSIVE ChainFind(_, _)
ChainFind(chain, blockId) ==
    IF chain = << >> THEN NULL
    ELSE IF Head(chain) = blockId THEN blockId
    ELSE ChainFind(Tail(chain), blockId)

\* lines 801-814: link the block before the first entry whose id is not smaller
RECURSIVE ChainInsert(_, _)
ChainInsert(chain, blockId) ==
    IF chain = << >> \/ ~(Head(chain) < blockId)
    THEN <<blockId>> \o chain
    ELSE <<Head(chain)>> \o ChainInsert(Tail(chain), blockId)

\* lines 827-837: unlink the first entry that has the id
RECURSIVE ChainRemoveDropsRest(_, _)
ChainRemoveDropsRest(chain, blockId) ==
    IF chain = << >> THEN << >>
    ELSE IF Head(chain) = blockId THEN << >>
    ELSE <<Head(chain)>> \o ChainRemoveDropsRest(Tail(chain), blockId)

RECURSIVE ChainRemove(_, _)
ChainRemove(chain, blockId) ==
    IF chain = << >> THEN << >>
    ELSE IF Head(chain) = blockId THEN Tail(chain)
    ELSE <<Head(chain)>> \o ChainRemove(Tail(chain), blockId)

(***************************************************************************)
(* NormBlockBuffer::Find                                                   *)
(***************************************************************************)
Find(b, blockId) ==
    IF b.range # 0
    THEN IF blockId < b.range_lo \/ blockId > b.range_hi
         THEN NULL
         ELSE ChainFind(b.table[Hash(blockId, b.hash_mask)], blockId)
    ELSE NULL

(***************************************************************************)
(* NormBlockBuffer::CanInsert                                              *)
(***************************************************************************)
CanInsertOffByOne(b, blockId) ==
    IF b.range # 0
    THEN IF blockId < b.range_lo
         THEN ~(U32(b.range_lo - blockId + b.range) >= b.range_max)
         ELSE IF blockId > b.range_hi
         THEN ~(U32(blockId - b.range_hi + b.range) >= b.range_max)
         ELSE TRUE
    ELSE TRUE

CanInsert(b, blockId) ==
    IF b.range # 0
    THEN IF blockId < b.range_lo
         THEN ~(U32(b.range_lo - blockId + b.range) > b.range_max)
         ELSE IF blockId > b.range_hi
         THEN ~(U32(blockId - b.range_hi + b.range) > b.range_max)
         ELSE TRUE
    ELSE TRUE

(***************************************************************************)
(* NormBlockBuffer::Insert                                                 *)
(***************************************************************************)
\* lines 788, 795: the test that rejects an Insert
RangeExceededOffByOne(newRange, rangeMax) == newRange >= rangeMax

RangeExceededNever(newRange, rangeMax) == FALSE

RangeExceeded(newRange, rangeMax) == newRange > rangeMax

\* lines 799-814
Thread(b, blockId) ==
    LET i == Hash(blockId, b.hash_mask)
    IN  [b EXCEPT !.table[i] = ChainInsert(b.table[i], blockId)]

Insert(b, blockId) ==
    LET b1 == IF b.range = 0
              THEN [b EXCEPT !.range_lo = blockId, !.range_hi = blockId, !.range = 1]
              ELSE b
    IN  IF blockId < b1.range_lo
        THEN LET newRange == U32(b1.range_lo - blockId + b1.range)
             IN  IF RangeExceeded(newRange, b1.range_max)
                 THEN [ret |-> FALSE, buf |-> b1]
                 ELSE [ret |-> TRUE,
                       buf |-> Thread([b1 EXCEPT !.range_lo = blockId, !.range = newRange],
                                      blockId)]
        ELSE IF blockId > b1.range_hi
        THEN LET newRange == U32(blockId - b1.range_hi + b1.range)
             IN  IF RangeExceeded(newRange, b1.range_max)
                 THEN [ret |-> FALSE, buf |-> b1]
                 ELSE [ret |-> TRUE,
                       buf |-> Thread([b1 EXCEPT !.range_hi = blockId, !.range = newRange],
                                      blockId)]
        ELSE [ret |-> TRUE, buf |-> Thread(b1, blockId)]

(***************************************************************************)
(* NormBlockBuffer::Remove                                                 *)
(***************************************************************************)
\* The number of steps after which a circular bucket scan can no longer end
\* before its UINT32 offset wraps around: the target id has passed every id
\* of the model, and the bucket index has been round its cycle twice.
ScanLimit(mask) == MaxId + 2 * (mask + 1) + 1

\* lines 846-849: the bucket at which the scan for the new range_lo ends
EndexLo(b, i) ==
    IF b.range <= b.hash_mask THEN BitAnd(U32(i + b.range - 1), b.hash_mask) ELSE i

\* lines 882-885: the bucket at which the scan for the new range_hi ends
EndexHi(b, i) ==
    IF b.range <= b.hash_mask THEN BitAnd(U32(i - b.range + 1), b.hash_mask) ELSE i

\* lines 861-867: walk one chain for the exact id, tracking the smallest id
\* above blockId met on the way
RECURSIVE WalkLo(_, _, _, _)
WalkLo(chain, id, blockId, nextId) ==
    IF chain = << >> THEN [entry |-> NULL, nextId |-> nextId]
    ELSE IF Head(chain) = id THEN [entry |-> id, nextId |-> nextId]
    ELSE WalkLo(Tail(chain), id, blockId,
                IF Head(chain) > blockId /\ Head(chain) < nextId
                THEN Head(chain) ELSE nextId)

\* lines 899-904: the same, tracking the largest id below blockId
RECURSIVE WalkHi(_, _, _, _)
WalkHi(chain, id, blockId, prevId) ==
    IF chain = << >> THEN [entry |-> NULL, prevId |-> prevId]
    ELSE IF Head(chain) = id THEN [entry |-> id, prevId |-> prevId]
    ELSE WalkHi(Tail(chain), id, blockId,
                IF Head(chain) < blockId /\ Head(chain) > prevId
                THEN Head(chain) ELSE prevId)

\* lines 853-870: the do-while loop, one iteration per unfolding
RECURSIVE ScanLo(_, _, _, _, _, _)
ScanLo(b, blockId, endex, i, offset, nextId) ==
    LET i2 == BitAnd(U32(i + 1), b.hash_mask)
        offset2 == U32(offset + 1)
        w == WalkLo(b.table[i2], U32(blockId + offset2), blockId, nextId)
    IN  IF w.entry # NULL THEN [entry |-> w.entry, nextId |-> w.nextId, spin |-> FALSE]
        ELSE IF i2 = endex THEN [entry |-> NULL, nextId |-> w.nextId, spin |-> FALSE]
        ELSE IF offset2 >= ScanLimit(b.hash_mask)
             THEN [entry |-> NULL, nextId |-> w.nextId, spin |-> TRUE]
        ELSE ScanLo(b, blockId, endex, i2, offset2, w.nextId)

\* lines 890-907
RECURSIVE ScanHi(_, _, _, _, _, _)
ScanHi(b, blockId, endex, i, offset, prevId) ==
    LET i2 == BitAnd(U32(i - 1), b.hash_mask)
        offset2 == U32(offset + 1)
        w == WalkHi(b.table[i2], U32(blockId - offset2), blockId, prevId)
    IN  IF w.entry # NULL THEN [entry |-> w.entry, prevId |-> w.prevId, spin |-> FALSE]
        ELSE IF i2 = endex THEN [entry |-> NULL, prevId |-> w.prevId, spin |-> FALSE]
        ELSE IF offset2 >= ScanLimit(b.hash_mask)
             THEN [entry |-> NULL, prevId |-> w.prevId, spin |-> TRUE]
        ELSE ScanHi(b, blockId, endex, i2, offset2, w.prevId)

\* lines 841-876: the removed block was range_lo
RemoveLo(b, blockId, i) ==
    LET s == ScanLo(b, blockId, EndexLo(b, i), i, 0, b.range_hi)
        lo == IF s.entry # NULL THEN s.entry ELSE s.nextId
    IN  [ret |-> TRUE, spin |-> s.spin,
         buf |-> IF s.spin THEN b
                 ELSE [b EXCEPT !.range_lo = lo, !.range = U32(b.range_hi - lo + 1)]]

\* lines 877-913: the removed block was range_hi
RemoveHi(b, blockId, i) ==
    LET s == ScanHi(b, blockId, EndexHi(b, i), i, 0, b.range_lo)
        hi == IF s.entry # NULL THEN s.entry ELSE s.prevId
    IN  [ret |-> TRUE, spin |-> s.spin,
         buf |-> IF s.spin THEN b
                 ELSE [b EXCEPT !.range_hi = hi, !.range = U32(hi - b.range_lo + 1)]]

Remove(b, blockId) ==
    IF b.range # 0
    THEN IF blockId < b.range_lo \/ blockId > b.range_hi
         THEN [ret |-> FALSE, spin |-> FALSE, buf |-> b]
         ELSE LET i == Hash(blockId, b.hash_mask)
              IN  IF ChainFind(b.table[i], blockId) = NULL
                  THEN [ret |-> FALSE, spin |-> FALSE, buf |-> b]
                  ELSE LET b1 == [b EXCEPT !.table[i] = ChainRemove(b.table[i], blockId)]
                       IN  IF b1.range > 1
                           THEN IF blockId = b1.range_lo THEN RemoveLo(b1, blockId, i)
                                ELSE IF blockId = b1.range_hi THEN RemoveHi(b1, blockId, i)
                                ELSE [ret |-> TRUE, spin |-> FALSE, buf |-> b1]
                           ELSE [ret |-> TRUE, spin |-> FALSE,
                                 buf |-> [b1 EXCEPT !.range = 0]]
    ELSE [ret |-> FALSE, spin |-> FALSE, buf |-> b]

(***************************************************************************)
(* NormBlockBuffer::Destroy                                                *)
(***************************************************************************)
\* lines 717-722: remove and delete the block Find(range_lo) returns until it
\* returns NULL; disposed collects the blocks deleted
RECURSIVE DestroyLoop(_, _)
DestroyLoop(b, disposed) ==
    LET block == Find(b, b.range_lo)
    IN  IF block # NULL
        THEN LET r == Remove(b, block)
             IN  IF r.spin
                 THEN [buf |-> r.buf, disposed |-> disposed, spin |-> TRUE]
                 ELSE DestroyLoop(r.buf, disposed \cup {block})
        ELSE [buf |-> b, disposed |-> disposed, spin |-> FALSE]

\* lines 711-727.  released is the table as it is when line 723 releases it
\* (NullTable when there is none), disposed the blocks deleted on line 721.
Destroy(b) ==
    LET b0 == [b EXCEPT !.range_max = 0, !.range = 0]
    IN  IF b0.table # NullTable
        THEN LET r == DestroyLoop(b0, {})
             IN  [buf |-> IF r.spin THEN r.buf
                          ELSE [r.buf EXCEPT !.table = NullTable, !.range_max = 0],
                  released |-> r.buf.table,
                  disposed |-> r.disposed,
                  spin |-> r.spin]
        ELSE [buf |-> b0, released |-> NullTable, disposed |-> {}, spin |-> FALSE]

(***************************************************************************)
(* NormBlockBuffer::Iterator                                               *)
(***************************************************************************)
\* lines 956-959: the bucket at which the scan for the next block ends
IterEndex(b, idx) ==
    IF U32(b.range_hi - idx) <= b.hash_mask
    THEN BitAnd(U32(b.range_hi), b.hash_mask)
    ELSE U32(idx)

\* lines 969-974
RECURSIVE IterWalk(_, _, _, _)
IterWalk(chain, id, idx, nextId) ==
    IF chain = << >> THEN [entry |-> NULL, nextId |-> nextId]
    ELSE IF Head(chain) = id THEN [entry |-> id, nextId |-> nextId]
    ELSE IterWalk(Tail(chain), id, idx,
                  IF Head(chain) > idx /\ Head(chain) < nextId
                  THEN Head(chain) ELSE nextId)

\* lines 962-980
RECURSIVE IterScan(_, _, _, _, _, _)
IterScan(b, idx, endex, i, offset, nextId) ==
    LET i2 == BitAnd(U32(i + 1), b.hash_mask)
        offset2 == U32(offset + 1)
        w == IterWalk(b.table[i2], U32(idx + offset2), idx, nextId)
    IN  IF w.entry # NULL THEN [entry |-> w.entry, nextId |-> w.nextId, spin |-> FALSE]
        ELSE IF i2 = endex THEN [entry |-> NULL, nextId |-> w.nextId, spin |-> FALSE]
        ELSE IF offset2 >= ScanLimit(b.hash_mask)
             THEN [entry |-> NULL, nextId |-> w.nextId, spin |-> TRUE]
        ELSE IterScan(b, idx, endex, i2, offset2, w.nextId)

\* the test of lines 949-951 that the iteration has not run off the range
IterInRange(b, idx) ==
    b.range # 0 /\ idx < b.range_hi /\ idx >= b.range_lo

\* GetNextBlock on an iterator [reset, index] over buffer b
GetNextBlock(b, it) ==
    IF it.reset
    THEN IF b.range # 0
         THEN [ret |-> Find(b, b.range_lo), reset |-> FALSE, index |-> b.range_lo,
               spin |-> FALSE]
         ELSE [ret |-> NULL, reset |-> it.reset, index |-> it.index, spin |-> FALSE]
    ELSE IF IterInRange(b, it.index)
         THEN LET s == IterScan(b, it.index, IterEndex(b, it.index), U32(it.index),
                                0, b.range_hi)
              IN  IF s.spin
                  THEN [ret |-> NULL, reset |-> FALSE, index |-> it.index, spin |-> TRUE]
                  ELSE IF s.entry # NULL
                  THEN [ret |-> s.entry, reset |-> FALSE, index |-> s.entry,
                        spin |-> FALSE]
                  ELSE [ret |-> Find(b, s.nextId), reset |-> FALSE, index |-> s.nextId,
                        spin |-> FALSE]
         ELSE [ret |-> NULL, reset |-> FALSE, index |-> it.index, spin |-> FALSE]

(***************************************************************************)
(* The bit masks of a block (NormBitmask): a mask is the set of the       *)
(* indices of its set bits.                                                *)
(***************************************************************************)
SetBits(mask, start, count) == mask \cup (start..(start + count - 1))

UnsetBits(mask, start, count) == mask \ (start..(start + count - 1))

Set(mask, i) == mask \cup {i}

Test(mask, i) == i \in mask

IsSet(mask) == mask # {}

Clear(mask) == {}

\* Xor(other): self := self XOR other
Xor(mask, other) == (mask \ other) \cup (other \ mask)

\* Add(other): self := self OR other
Add(mask, other) == mask \cup other

\* UINT16 arithmetic
U16(x) == x % 65536

\* The block's fields as one value.
Blk ==
    [size |-> size, pending_mask |-> pending_mask, repair_mask |-> repair_mask,
     erasure_count |-> erasure_count, parity_count |-> parity_count,
     parity_offset |-> parity_offset, in_repair |-> in_repair]

(***************************************************************************)
(* NormBlock::Init: allocation succeeds.  The flags are not written by    *)
(* Init or by the constructor, so IN_REPAIR keeps whatever value it had.  *)
(***************************************************************************)
BlockInit(totalSize, flag) ==
    [size |-> totalSize, pending_mask |-> {}, repair_mask |-> {},
     erasure_count |-> 0, parity_count |-> 0, parity_offset |-> 0,
     in_repair |-> flag]

(***************************************************************************)
(* NormBlock::TxReset.  parityReady is the value of ParityReady(numData). *)
(***************************************************************************)
\* lines 220-221 and 227-228: the pattern TxReset installs in a mask
ResetPatternKeepParity(mask, nData, nParity, autoParity) ==
    SetBits(mask, 0, nData + autoParity)

ResetPattern(mask, nData, nParity, autoParity) ==
    UnsetBits(SetBits(mask, 0, nData + autoParity),
              nData + autoParity, U16(nParity - autoParity))

\* lines 222-223: whether the pending mask differs from the pattern
ResetChangesIgnoreParity(b, nData, nParity, autoParity) ==
    IsSet(Xor(ResetPattern(b.repair_mask, nData, nParity, autoParity), b.pending_mask)
          \cap (0..(nData - 1)))

ResetChanges(b, nData, nParity, autoParity) ==
    IsSet(Xor(ResetPattern(b.repair_mask, nData, nParity, autoParity), b.pending_mask))

\* TxReset without the parity_count = numParity of line 230
TxResetKeepsParityCount(b, nData, nParity, autoParity, parityReady) ==
    LET xored == Xor(ResetPattern(b.repair_mask, nData, nParity, autoParity),
                     b.pending_mask)
    IN  IF ResetChanges(b, nData, nParity, autoParity)
        THEN [ret |-> TRUE,
              blk |-> [b EXCEPT
                         !.repair_mask = Clear(xored),
                         !.pending_mask =
                             ResetPattern(b.pending_mask, nData, nParity, autoParity),
                         !.parity_offset = autoParity,
                         !.in_repair = TRUE,
                         !.erasure_count = IF parityReady THEN b.erasure_count ELSE 0]]
        ELSE [ret |-> FALSE, blk |-> [b EXCEPT !.repair_mask = xored]]

TxReset(b, nData, nParity, autoParity, parityReady) ==
    LET xored == Xor(ResetPattern(b.repair_mask, nData, nParity, autoParity),
                     b.pending_mask)
    IN  IF ResetChanges(b, nData, nParity, autoParity)
        THEN [ret |-> TRUE,
              blk |-> [b EXCEPT
                         !.repair_mask = Clear(xored),
                         !.pending_mask =
                             ResetPattern(b.pending_mask, nData, nParity, autoParity),
                         !.parity_offset = autoParity,
                         !.parity_count = nParity,
                         !.in_repair = TRUE,
                         !.erasure_count = IF parityReady THEN b.erasure_count ELSE 0]]
        ELSE [ret |-> FALSE, blk |-> [b EXCEPT !.repair_mask = xored]]

(***************************************************************************)
(* NormBlock::ActivateRepairs                                              *)
(***************************************************************************)
\* ActivateRepairs that copies repair_mask over pending_mask (line 259)
ActivateRepairsOverwrites(b, nParity) ==
    IF IsSet(b.repair_mask)
    THEN [ret |-> TRUE,
          blk |-> [b EXCEPT !.pending_mask = b.repair_mask,
                            !.repair_mask = Clear(b.repair_mask)]]
    ELSE [ret |-> FALSE, blk |-> b]

\* ActivateRepairs that forgets to clear repair_mask (line 260)
ActivateRepairsKeepsStaged(b, nParity) ==
    IF IsSet(b.repair_mask)
    THEN [ret |-> TRUE,
          blk |-> [b EXCEPT !.pending_mask = Add(b.pending_mask, b.repair_mask)]]
    ELSE [ret |-> FALSE, blk |-> b]

ActivateRepairs(b, nParity) ==
    IF IsSet(b.repair_mask)
    THEN [ret |-> TRUE,
          blk |-> [b EXCEPT !.pending_mask = Add(b.pending_mask, b.repair_mask),
                            !.repair_mask = Clear(b.repair_mask)]]
    ELSE [ret |-> FALSE, blk |-> b]

(***************************************************************************)
(* NormBlock::TxUpdate and NormBlock::HandleSegmentRequest                *)
(***************************************************************************)
\* lines 281-289, 318-326, 342-350, 379-387: set every clear bit of
\* [nextId, lastId]; increased tells whether a bit was newly set
RECURSIVE MarkRangeAlways(_, _, _, _)
MarkRangeAlways(mask, nextId, lastId, increased) ==
    IF nextId <= lastId
    THEN MarkRangeAlways(Set(mask, nextId), U16(nextId + 1), lastId, TRUE)
    ELSE [mask |-> mask, increased |-> increased]

RECURSIVE MarkRange(_, _, _, _)
MarkRange(mask, nextId, lastId, increased) ==
    IF nextId <= lastId
    THEN IF ~Test(mask, nextId)
         THEN MarkRange(Set(mask, nextId), U16(nextId + 1), lastId, TRUE)
         ELSE MarkRange(mask, U16(nextId + 1), lastId, increased)
    ELSE [mask |-> mask, increased |-> increased]

\* TxUpdate with line 314 moved out of the test of line 309
TxUpdateAlwaysAdvances(b, nextId, lastId, nData, nParity, erasureCount) ==
    IF nextId < nData
    THEN LET m == MarkRange(b.pending_mask, nextId, lastId, FALSE)
         IN  [ret |-> m.increased,
              blk |-> [b EXCEPT !.parity_offset = nParity,
                                !.parity_count = nParity,
                                !.pending_mask = m.mask]]
    ELSE LET parityAvailable == U16(nParity - b.parity_offset)
         IN  IF erasureCount <= parityAvailable
             THEN IF erasureCount > b.parity_count
                  THEN [ret |-> TRUE,
                        blk |-> [b EXCEPT
                                   !.pending_mask =
                                       SetBits(b.pending_mask,
                                               nData + b.parity_offset + b.parity_count,
                                               erasureCount - b.parity_count),
                                   !.parity_count = erasureCount]]
                  ELSE [ret |-> FALSE, blk |-> b]
             ELSE LET fresh == b.parity_count < parityAvailable
                      b1 == IF fresh
                            THEN [b EXCEPT
                                    !.pending_mask =
                                        SetBits(b.pending_mask,
                                                nData + b.parity_offset + b.parity_count,
                                                U16(parityAvailable - b.parity_count)),
                                    !.parity_count = parityAvailable]
                            ELSE b
                      m == MarkRange(b1.pending_mask, U16(nextId + parityAvailable),
                                     lastId, fresh)
                  IN  [ret |-> m.increased,
                       blk |-> [b1 EXCEPT !.pending_mask = m.mask]]

\* TxUpdate that sets erasureCount bits on line 301, not the
\* erasureCount - parity_count that are missing
TxUpdateSetsWholeCount(b, nextId, lastId, nData, nParity, erasureCount) ==
    IF nextId < nData
    THEN LET m == MarkRange(b.pending_mask, nextId, lastId, FALSE)
         IN  [ret |-> m.increased,
              blk |-> [b EXCEPT !.parity_offset = nParity,
                                !.parity_count = nParity,
                                !.pending_mask = m.mask]]
    ELSE LET parityAvailable == U16(nParity - b.parity_offset)
         IN  IF erasureCount <= parityAvailable
             THEN IF erasureCount > b.parity_count
                  THEN [ret |-> TRUE,
                        blk |-> [b EXCEPT
                                   !.pending_mask =
                                       SetBits(b.pending_mask,
                                               nData + b.parity_offset + b.parity_count,
                                               erasureCount),
                                   !.parity_count = erasureCount]]
                  ELSE [ret |-> FALSE, blk |-> b]
             ELSE LET fresh == b.parity_count < parityAvailable
                      b1 == IF fresh
                            THEN [b EXCEPT
                                    !.pending_mask =
                                        SetBits(b.pending_mask,
                                                nData + b.parity_offset + b.parity_count,
                                                U16(parityAvailable - b.parity_count)),
                                    !.parity_count = parityAvailable]
                            ELSE b
                      nextId1 == IF fresh THEN U16(nextId + parityAvailable) ELSE nextId
                      m == MarkRange(b1.pending_mask, nextId1, lastId, fresh)
                  IN  [ret |-> m.increased,
                       blk |-> [b1 EXCEPT !.pending_mask = m.mask]]

\* lines 272-330
TxUpdate(b, nextId, lastId, nData, nParity, erasureCount) ==
    IF nextId < nData
    THEN LET m == MarkRange(b.pending_mask, nextId, lastId, FALSE)
         IN  [ret |-> m.increased,
              blk |-> [b EXCEPT !.parity_offset = nParity,
                                !.parity_count = nParity,
                                !.pending_mask = m.mask]]
    ELSE LET parityAvailable == U16(nParity - b.parity_offset)
         IN  IF erasureCount <= parityAvailable
             THEN IF erasureCount > b.parity_count
                  THEN [ret |-> TRUE,
                        blk |-> [b EXCEPT
                                   !.pending_mask =
                                       SetBits(b.pending_mask,
                                               nData + b.parity_offset + b.parity_count,
                                               erasureCount - b.parity_count),
                                   !.parity_count = erasureCount]]
                  ELSE [ret |-> FALSE, blk |-> b]
             ELSE LET fresh == b.parity_count < parityAvailable
                      b1 == IF fresh
                            THEN [b EXCEPT
                                    !.pending_mask =
                                        SetBits(b.pending_mask,
                                                nData + b.parity_offset + b.parity_count,
                                                U16(parityAvailable - b.parity_count)),
                                    !.parity_count = parityAvailable]
                            ELSE b
                      nextId1 == IF fresh THEN U16(nextId + parityAvailable) ELSE nextId
                      m == MarkRange(b1.pending_mask, nextId1, lastId, fresh)
                  IN  [ret |-> m.increased,
                       blk |-> [b1 EXCEPT !.pending_mask = m.mask]]

\* HandleSegmentRequest that marks pending_mask, as TxUpdate does
HandleSegmentRequestMarksPending(b, nextId, lastId, nData, nParity, erasureCount) ==
    TxUpdate(b, nextId, lastId, nData, nParity, erasureCount)

\* lines 332-391
HandleSegmentRequest(b, nextId, lastId, nData, nParity, erasureCount) ==
    IF nextId < nData
    THEN LET m == MarkRange(b.repair_mask, nextId, lastId, FALSE)
         IN  [ret |-> m.increased,
              blk |-> [b EXCEPT !.parity_count = nParity,
                                !.parity_offset = nParity,
                                !.repair_mask = m.mask]]
    ELSE LET parityAvailable == U16(nParity - b.parity_offset)
         IN  IF erasureCount <= parityAvailable
             THEN IF erasureCount > b.parity_count
                  THEN [ret |-> TRUE,
                        blk |-> [b EXCEPT
                                   !.repair_mask =
                                       SetBits(b.repair_mask,
                                               nData + b.parity_offset + b.parity_count,
                                               erasureCount - b.parity_count),
                                   !.parity_count = erasureCount]]
                  ELSE [ret |-> FALSE, blk |-> b]
             ELSE LET fresh == b.parity_count < parityAvailable
                      b1 == IF fresh
                            THEN [b EXCEPT
                                    !.repair_mask =
                                        SetBits(b.repair_mask,
                                                nData + b.parity_offset + b.parity_count,
                                                U16(parityAvailable - b.parity_count)),
                                    !.parity_count = parityAvailable]
                            ELSE b
                      nextId1 == IF fresh THEN U16(nextId + parityAvailable) ELSE nextId
                      m == MarkRange(b1.repair_mask, nextId1, lastId, fresh)
                  IN  [ret |-> m.increased,
                       blk |-> [b1 EXCEPT !.repair_mask = m.mask]]

(***************************************************************************)
(* The receiver side of NormBlock: IsRepairPending.                       *)
(***************************************************************************)
\* the lowest bit of a mask that has one
FirstSet(mask) == CHOOSE i \in mask : \A j \in mask : i <= j

\* GetFirstPending and GetNextPending, called with index = start: the first
\* set bit of pending_mask, and its first set bit at or after start; found
\* tells whether there is one, and index keeps its value when there is none.
GetFirstPending(b, start) ==
    IF b.pending_mask = {}
    THEN [found |-> FALSE, index |-> start]
    ELSE [found |-> TRUE, index |-> FirstSet(b.pending_mask)]

GetNextPending(b, start) ==
    LET after == {i \in b.pending_mask : i >= start}
    IN  IF after = {}
        THEN [found |-> FALSE, index |-> start]
        ELSE [found |-> TRUE, index |-> FirstSet(after)]

\* GetFirstRepair and GetNextRepair: the same searches of repair_mask
GetFirstRepair(b, start) ==
    IF b.repair_mask = {}
    THEN [found |-> FALSE, index |-> start]
    ELSE [found |-> TRUE, index |-> FirstSet(b.repair_mask)]

GetNextRepair(b, start) ==
    LET after == {i \in b.repair_mask : i >= start}
    IN  IF after = {}
        THEN [found |-> FALSE, index |-> start]
        ELSE [found |-> TRUE, index |-> FirstSet(after)]

\* repair_mask.XCopy(pending_mask) read as an exclusive or
XCopyAsXor(mask, other) == Xor(mask, other)

\* lines 208-209: "Calculate repair_mask = pending_mask - repair_mask"
XCopy(mask, other) == other \ mask

\* lines 186-197: set in mask the next i pending ids from nextId on
RECURSIVE MarkParityFill(_, _, _, _)
MarkParityFill(b, mask, nextId, i) ==
    IF i = 0
    THEN mask
    ELSE MarkParityFill(b, Set(mask, nextId),
                        GetNextPending(b, U16(nextId + 1)).index, i - 1)

\* lines 182-207 without the SetBits of line 206
MarkCoveredDataOnly(b, nData, nParity) ==
    IF b.erasure_count > nParity
    THEN IF nParity # 0
         THEN MarkParityFill(b, b.repair_mask, GetFirstPending(b, 0).index, nParity)
         ELSE IF b.size > nData
              THEN SetBits(b.repair_mask, nData, b.size - nData)
              ELSE b.repair_mask
    ELSE SetBits(b.repair_mask, 0, nData)

\* lines 182-207: repair_mask as it is when line 209 is reached
MarkCovered(b, nData, nParity) ==
    IF b.erasure_count > nParity
    THEN IF nParity # 0
         THEN MarkParityFill(b, b.repair_mask, GetFirstPending(b, 0).index, nParity)
         ELSE IF b.size > nData
              THEN SetBits(b.repair_mask, nData, b.size - nData)
              ELSE b.repair_mask
    ELSE SetBits(SetBits(b.repair_mask, 0, nData),
                 nData + b.erasure_count, nParity - b.erasure_count)

\* lines 177-211
IsRepairPending(b, nData, nParity) ==
    LET m == XCopy(MarkCovered(b, nData, nParity), b.pending_mask)
    IN  [ret |-> IsSet(m), blk |-> [b EXCEPT !.repair_mask = m]]

(***************************************************************************)
(* NormBlock::AppendRepairRequest and NormBlock::AppendRepairAdv.  The    *)
(* value is the sequence of the calls made on the message and on the      *)
(* NormRepairRequest: Attach, SetForm, Item, Range and Pack.               *)
(***************************************************************************)
Attach == [op |-> "Attach", form |-> "INVALID", first |-> 0, last |-> 0]
Pack == [op |-> "Pack", form |-> "INVALID", first |-> 0, last |-> 0]
SetForm(form) == [op |-> "SetForm", form |-> form, first |-> 0, last |-> 0]
Item(id) == [op |-> "Item", form |-> "INVALID", first |-> id, last |-> id]
Range(firstId, lastId) ==
    [op |-> "Range", form |-> "INVALID", first |-> firstId, last |-> lastId]

\* lines 420-432 and 514-526 with RANGES from two segments on
FormOfShortRanges(segmentCount) ==
    IF segmentCount = 0 THEN "INVALID"
    ELSE IF segmentCount <= 1 THEN "ITEMS" ELSE "RANGES"

\* lines 420-432 and 514-526: the form of a run of segmentCount ids
FormOf(segmentCount) ==
    IF segmentCount = 0 THEN "INVALID"
    ELSE IF segmentCount <= 2 THEN "ITEMS" ELSE "RANGES"

\* lines 441-458 and 535-552: the appends for a closed run
AppendRun(form, segmentCount, firstId, currentId) ==
    IF form = "ITEMS"
    THEN <<Item(firstId)>> \o (IF segmentCount = 2 THEN <<Item(currentId)>> ELSE << >>)
    ELSE IF form = "RANGES" THEN <<Range(firstId, currentId)>> ELSE << >>

\* lines 482-488: skip i pending ids
RECURSIVE SkipPending(_, _, _)
SkipPending(b, nextId, i) ==
    IF i = 0
    THEN nextId
    ELSE SkipPending(b, GetNextPending(b, U16(nextId + 1)).index, i - 1)

\* lines 476-497: the window [nextId, endId) the request is made for
RequestWindow(b, nData, nParity) ==
    IF b.erasure_count > nParity
    THEN [nextId |-> SkipPending(b, GetFirstPending(b, 0).index, nParity),
          endId |-> U16(nData + nParity)]
    ELSE [nextId |-> GetNextPending(b, nData).index,
          endId |-> U16(nData + b.erasure_count)]

\* lines 504-557
RECURSIVE RequestLoop(_, _, _, _, _, _, _)
RequestLoop(b, nextId, endId, prevForm, segmentCount, firstId, out) ==
    IF nextId < endId
    THEN LET currentId == nextId
             next == GetNextPending(b, U16(nextId + 1))
             nextId1 == IF next.found THEN next.index ELSE endId
             firstId1 == IF segmentCount = 0 THEN currentId ELSE firstId
             count1 == U16(segmentCount + 1)
         IN  IF (nextId1 - currentId) > 1 \/ nextId1 >= endId
             THEN LET form == FormOf(count1)
                      open == IF form # prevForm
                              THEN (IF prevForm # "INVALID" THEN <<Pack>> ELSE << >>)
                                   \o <<Attach, SetForm(form)>>
                              ELSE << >>
                  IN  RequestLoop(b, nextId1, endId, form, 0, firstId1,
                                  out \o open
                                      \o AppendRun(form, count1, firstId1, currentId))
             ELSE RequestLoop(b, nextId1, endId, prevForm, count1, firstId1, out)
    ELSE out \o (IF prevForm # "INVALID" THEN <<Pack>> ELSE << >>)

\* lines 469-557
AppendRepairRequest(b, nData, nParity) ==
    LET w == RequestWindow(b, nData, nParity)
    IN  RequestLoop(b, w.nextId, w.endId, "INVALID", 0, 0, << >>)

\* lines 410-464
RECURSIVE AdvLoop(_, _, _, _, _, _, _)
AdvLoop(b, nextId, totalSize, prevForm, segmentCount, firstId, out) ==
    IF nextId < totalSize
    THEN LET currentId == nextId
             next == GetNextRepair(b, U16(nextId + 1))
             nextId1 == IF next.found THEN next.index ELSE totalSize
             firstId1 == IF segmentCount = 0 THEN currentId ELSE firstId
             count1 == U16(segmentCount + 1)
         IN  IF (nextId1 - currentId) > 1 \/ nextId1 >= totalSize
             THEN LET form == FormOf(count1)
                      open == IF form # prevForm
                              THEN (IF prevForm # "INVALID" THEN <<Pack>> ELSE << >>)
                                   \o <<SetForm(form), Attach>>
                              ELSE << >>
                  IN  AdvLoop(b, nextId1, totalSize, form, 0, firstId1,
                              out \o open
                                  \o AppendRun(form, count1, firstId1, currentId))
             ELSE AdvLoop(b, nextId1, totalSize, prevForm, count1, firstId1, out)
    ELSE out \o (IF prevForm # "INVALID" THEN <<Pack>> ELSE << >>)

\* AppendRepairAdv without the PackRepairRequest of lines 462-463
AppendRepairAdvUnpacked(b) ==
    LET first == GetFirstRepair(b, 0)
        out == AdvLoop(b, first.index, b.size, "INVALID", 0, 0, << >>)
    IN  IF first.found
        THEN SubSeq(out, 1, Len(out) - 1)
        ELSE << >>

\* lines 394-466
AppendRepairAdv(b) ==
    LET first == GetFirstRepair(b, 0)
    IN  IF first.found
        THEN AdvLoop(b, first.index, b.size, "INVALID", 0, 0, << >>)
        ELSE << >>

(***************************************************************************)
(* NormSegmentPool.  A segment is named by a number; seg_list is the free *)
(* list, head first, and << >> when it is NULL.                            *)
(***************************************************************************)
PtrSize == 8

\* the result of Get when there is no segment
NoSegment == 0

Pool ==
    [seg_size |-> seg_size, seg_count |-> seg_count, seg_total |-> seg_total,
     seg_list |-> seg_list, peak_usage |-> peak_usage, overruns |-> overruns,
     overrun_flag |-> overrun_flag]

\* lines 26-28: size rounded up to a multiple of the pointer size
AllocSize(bytes) ==
    LET alloc_size == bytes \div PtrSize
    IN  (IF alloc_size * PtrSize < bytes THEN alloc_size + 1 ELSE alloc_size) * PtrSize

\* lines 53-67, called when seg_count = seg_total
PoolDestroy(p) ==
    [p EXCEPT !.seg_list = << >>, !.seg_count = 0, !.seg_total = 0, !.seg_size = 0]

\* lines 29-37: allocate and push the segments i..count
RECURSIVE PoolFill(_, _, _)
PoolFill(p, i, count) ==
    IF i > count
    THEN p
    ELSE PoolFill([p EXCEPT !.seg_list = <<i>> \o p.seg_list,
                            !.seg_count = p.seg_count + 1],
                  i + 1, count)

\* lines 17-51; failed tells that an allocation fails
PoolInit(p, count, bytes, failed) ==
    LET p0 == IF p.seg_list # << >> THEN PoolDestroy(p) ELSE p
        p1 == [p0 EXCEPT !.peak_usage = 0, !.overruns = 0,
                         !.seg_size = AllocSize(bytes)]
        p2 == PoolFill(p1, 1, count)
    IN  IF failed
        THEN [ret |-> FALSE, pool |-> PoolDestroy(p1)]
        ELSE [ret |-> TRUE, pool |-> [p2 EXCEPT !.seg_total = p2.seg_count]]

\* Get without the seg_count-- of line 75
PoolGetForgetsCount(p) ==
    IF p.seg_list # << >>
    THEN LET usage == p.seg_total - p.seg_count
         IN  [ret |-> Head(p.seg_list),
              pool |-> [p EXCEPT
                          !.seg_list = Tail(p.seg_list),
                          !.overrun_flag = FALSE,
                          !.peak_usage = IF usage > p.peak_usage
                                         THEN usage ELSE p.peak_usage]]
    ELSE [ret |-> NoSegment,
          pool |-> IF ~p.overrun_flag
                   THEN [p EXCEPT !.overruns = U32(p.overruns + 1),
                                  !.overrun_flag = TRUE]
                   ELSE p]

\* lines 69-92
PoolGet(p) ==
    IF p.seg_list # << >>
    THEN LET usage == p.seg_total - (p.seg_count - 1)
         IN  [ret |-> Head(p.seg_list),
              pool |-> [p EXCEPT
                          !.seg_list = Tail(p.seg_list),
                          !.seg_count = p.seg_count - 1,
                          !.overrun_flag = FALSE,
                          !.peak_usage = IF usage > p.peak_usage
                                         THEN usage ELSE p.peak_usage]]
    ELSE [ret |-> NoSegment,
          pool |-> IF ~p.overrun_flag
                   THEN [p EXCEPT !.overruns = U32(p.overruns + 1),
                                  !.overrun_flag = TRUE]
                   ELSE p]

\* NormSegmentPool::Put: push the segment on the free list
PoolPut(p, seg) ==
    [p EXCEPT !.seg_list = <<seg>> \o p.seg_list, !.seg_count = p.seg_count + 1]

(***************************************************************************)
(* The block buffer and its iterator as a state machine.                  *)
(***************************************************************************)
SetBuf(b) ==
    /\ table' = b.table
    /\ hash_mask' = b.hash_mask
    /\ range_max' = b.range_max
    /\ range' = b.range
    /\ range_lo' = b.range_lo
    /\ range_hi' = b.range_hi

\* State after the constructors (lines 678-681, 927-930).  hash_mask, range_lo,
\* range_hi and index are not initialised there and are not read before they
\* are first written; they start at 0 here.
BufferConstructed ==
    /\ table = NullTable
    /\ hash_mask = 0
    /\ range_max = 0
    /\ range = 0
    /\ range_lo = 0
    /\ range_hi = 0
    /\ reset = TRUE
    /\ index = 0
    /\ iterating = FALSE
    /\ yielded = << >>
    /\ live = {}
    /\ last = [op |-> "new", arg |-> 0, ret |-> FALSE, undo |-> FALSE]
    /\ spin = FALSE

\* State after NormBlock::NormBlock (lines 98-101); no block is in use.
BlockConstructed ==
    /\ size = 0
    /\ pending_mask = {}
    /\ repair_mask = {}
    /\ erasure_count = 0
    /\ parity_count = 0
    /\ parity_offset = 0
    /\ in_repair = FALSE
    /\ numData = 0
    /\ numParity = 0
    /\ call = [op |-> "new", ret |-> FALSE, autoParity |-> 0, repeat |-> FALSE]
    /\ msg = << >>
    /\ committed = FALSE

\* State after NormSegmentPool's constructor (lines 5-9).
PoolConstructed ==
    /\ seg_size = 0
    /\ seg_count = 0
    /\ seg_total = 0
    /\ seg_list = << >>
    /\ peak_usage = 0
    /\ overruns = 0
    /\ overrun_flag = FALSE
    /\ held = << >>
    /\ gets = << >>
    /\ starved = FALSE
    /\ pool_call = [op |-> "new", ret |-> FALSE, count |-> 0, inited |-> FALSE]

\* No call is stuck, no iterator is in use and the buffer is not destructed.
Idle == ~spin /\ ~iterating /\ last.op # "Destroy"

DoInit(rangeMax, tableSize) ==
    /\ Idle
    /\ table = NullTable
    /\ LET r == BufferInit(Buf, rangeMax, tableSize)
       IN  /\ SetBuf(r.buf)
           /\ last' = [op |-> "Init", arg |-> tableSize, ret |-> r.ret, undo |-> FALSE]
    /\ UNCHANGED <<iterVars, live, spin, blockVars, sessionVars, poolVars>>

DoInsert(blockId) ==
    /\ Idle
    /\ table # NullTable
    /\ blockId \notin live
    /\ LET r == Insert(Buf, blockId)
       IN  /\ SetBuf(r.buf)
           /\ live' = IF r.ret THEN live \cup {blockId} ELSE live
           /\ last' = [op |-> "Insert", arg |-> blockId, ret |-> r.ret, undo |-> FALSE]
    /\ UNCHANGED <<iterVars, spin, blockVars, sessionVars, poolVars>>

\* CanInsert is const: it only reports.
DoCanInsert(blockId) ==
    /\ Idle
    /\ table # NullTable
    /\ blockId \notin live
    /\ last' = [op |-> "CanInsert", arg |-> blockId, ret |-> CanInsert(Buf, blockId),
                undo |-> FALSE]
    /\ UNCHANGED <<bufVars, iterVars, live, spin, blockVars, sessionVars, poolVars>>

DoRemove(blockId) ==
    /\ Idle
    /\ table # NullTable
    /\ LET r == Remove(Buf, blockId)
       IN  /\ SetBuf(r.buf)
           /\ spin' = r.spin
           /\ live' = IF r.ret THEN live \ {blockId} ELSE live
           \* undo: this call removes the block that the call before it inserted
           /\ last' = [op |-> "Remove", arg |-> blockId, ret |-> r.ret,
                       undo |-> last.op = "Insert" /\ last.ret /\ last.arg = blockId]
    /\ UNCHANGED <<iterVars, blockVars, sessionVars, poolVars>>

\* Iterator::Iterator (lines 927-930)
NewIterator ==
    /\ Idle
    /\ table # NullTable
    /\ iterating' = TRUE
    /\ reset' = TRUE
    /\ index' = 0
    /\ yielded' = << >>
    /\ last' = [op |-> "Iterator", arg |-> 0, ret |-> FALSE, undo |-> FALSE]
    /\ UNCHANGED <<bufVars, live, spin, blockVars, sessionVars, poolVars>>

DoGetNextBlock ==
    /\ ~spin
    /\ iterating
    /\ Len(yielded) < Cardinality(live) + MaxExtraCalls
    /\ LET r == GetNextBlock(Buf, [reset |-> reset, index |-> index])
       IN  /\ reset' = r.reset
           /\ index' = r.index
           /\ spin' = r.spin
           /\ yielded' = IF r.spin THEN yielded ELSE Append(yielded, r.ret)
           /\ last' = [op |-> "GetNextBlock", arg |-> 0, ret |-> r.ret # NULL,
                       undo |-> FALSE]
    /\ UNCHANGED <<bufVars, iterating, live, blockVars, sessionVars, poolVars>>

\* The iterator goes out of scope.
EndIteration ==
    /\ ~spin
    /\ iterating
    /\ iterating' = FALSE
    /\ reset' = TRUE
    /\ index' = 0
    /\ yielded' = << >>
    /\ last' = [op |-> "end", arg |-> 0, ret |-> FALSE, undo |-> FALSE]
    /\ UNCHANGED <<bufVars, live, spin, blockVars, sessionVars, poolVars>>

\* NormBlockBuffer::~NormBlockBuffer (lines 683-686) calls Destroy; the buffer
\* is not used after it.
DoDestroy ==
    /\ Idle
    /\ LET d == Destroy(Buf)
       IN  /\ SetBuf(d.buf)
           /\ spin' = d.spin
           /\ live' = live \ d.disposed
           /\ last' = [op |-> "Destroy", arg |-> 0, ret |-> FALSE, undo |-> FALSE]
    /\ UNCHANGED <<iterVars, blockVars, sessionVars, poolVars>>

vars == <<bufVars, iterVars, histVars, blockVars, sessionVars, poolVars>>

Init == BufferConstructed /\ BlockConstructed /\ PoolConstructed

Next ==
    \/ \E rangeMax \in 0..MaxRangeMax, tableSize \in 0..MaxTableSize :
            DoInit(rangeMax, tableSize)
    \/ \E blockId \in Ids : DoInsert(blockId)
    \/ \E blockId \in Ids : DoCanInsert(blockId)
    \/ \E blockId \in Ids : DoRemove(blockId)
    \/ NewIterator
    \/ DoGetNextBlock
    \/ EndIteration
    \/ DoDestroy

Spec == Init /\ [][Next]_vars

(***************************************************************************)
(* One sender block as a state machine: the block is initialised for      *)
(* numData + numParity symbols and then driven with that numData and      *)
(* numParity.                                                              *)
(***************************************************************************)
SetBlk(b) ==
    /\ size' = b.size
    /\ pending_mask' = b.pending_mask
    /\ repair_mask' = b.repair_mask
    /\ erasure_count' = b.erasure_count
    /\ parity_count' = b.parity_count
    /\ parity_offset' = b.parity_offset
    /\ in_repair' = b.in_repair

SegmentIds == 0..(size - 1)

\* The erasure counts a request carries: TxUpdate and HandleSegmentRequest
\* only compare erasureCount with counts of at most numParity, so every
\* larger count acts as numParity + 1 does.
ErasureCounts == 0..(numParity + 1)

InitBlock ==
    /\ BufferConstructed
    /\ PoolConstructed
    /\ msg = << >>
    /\ committed = FALSE
    /\ numData \in 1..MaxSize
    /\ numParity \in 0..(MaxSize - numData)
    /\ \E flag \in BOOLEAN :
         /\ size = BlockInit(numData + numParity, flag).size
         /\ pending_mask = BlockInit(numData + numParity, flag).pending_mask
         /\ repair_mask = BlockInit(numData + numParity, flag).repair_mask
         /\ erasure_count = BlockInit(numData + numParity, flag).erasure_count
         /\ parity_count = BlockInit(numData + numParity, flag).parity_count
         /\ parity_offset = BlockInit(numData + numParity, flag).parity_offset
         /\ in_repair = BlockInit(numData + numParity, flag).in_repair
    /\ call = [op |-> "Init", ret |-> TRUE, autoParity |-> 0, repeat |-> FALSE]

DoTxReset(autoParity, parityReady) ==
    LET r == TxReset(Blk, numData, numParity, autoParity, parityReady)
    IN  /\ SetBlk(r.blk)
        \* repeat: the call before this one was the same TxReset and returned true
        /\ call' = [op |-> "TxReset", ret |-> r.ret, autoParity |-> autoParity,
                    repeat |-> call.op = "TxReset" /\ call.ret
                               /\ call.autoParity = autoParity]
        \* a TxReset that returns true commits the parity of the cycle (lines 229-230)
        /\ committed' = r.ret
        /\ UNCHANGED <<numData, numParity, msg, bufVars, iterVars, histVars, poolVars>>

DoTxUpdate(nextId, lastId, erasureCount) ==
    LET r == TxUpdate(Blk, nextId, lastId, numData, numParity, erasureCount)
    IN  /\ SetBlk(r.blk)
        /\ call' = [op |-> "TxUpdate", ret |-> r.ret, autoParity |-> 0,
                    repeat |-> FALSE]
        \* an explicit data request commits it too (line 280)
        /\ committed' = (committed \/ nextId < numData)
        /\ UNCHANGED <<numData, numParity, msg, bufVars, iterVars, histVars, poolVars>>

DoHandleSegmentRequest(nextId, lastId, erasureCount) ==
    LET r == HandleSegmentRequest(Blk, nextId, lastId, numData, numParity, erasureCount)
    IN  /\ SetBlk(r.blk)
        /\ call' = [op |-> "HandleSegmentRequest", ret |-> r.ret, autoParity |-> 0,
                    repeat |-> FALSE]
        \* line 341
        /\ committed' = (committed \/ nextId < numData)
        /\ UNCHANGED <<numData, numParity, msg, bufVars, iterVars, histVars, poolVars>>

DoActivateRepairs ==
    LET r == ActivateRepairs(Blk, numParity)
    IN  /\ SetBlk(r.blk)
        /\ call' = [op |-> "ActivateRepairs", ret |-> r.ret, autoParity |-> 0,
                    repeat |-> FALSE]
        /\ committed' = committed
        /\ UNCHANGED <<numData, numParity, msg, bufVars, iterVars, histVars, poolVars>>

NextBlock ==
    \/ \E autoParity \in 0..numParity, parityReady \in BOOLEAN :
            DoTxReset(autoParity, parityReady)
    \/ \E nextId \in SegmentIds, lastId \in SegmentIds, erasureCount \in ErasureCounts :
            nextId <= lastId /\ DoTxUpdate(nextId, lastId, erasureCount)
    \/ \E nextId \in SegmentIds, lastId \in SegmentIds, erasureCount \in ErasureCounts :
            nextId <= lastId /\ DoHandleSegmentRequest(nextId, lastId, erasureCount)
    \/ DoActivateRepairs

SpecBlock == InitBlock /\ [][NextBlock]_vars

(***************************************************************************)
(* One receiver block as a state machine: a block of size symbols, of     *)
(* which numData are data and numParity parity the session uses, with any *)
(* set of its symbols pending; erasure_count is the number of the data    *)
(* symbols that are pending.                                               *)
(***************************************************************************)
InitNack ==
    /\ BufferConstructed
    /\ PoolConstructed
    /\ numData \in 1..MaxRxSize
    /\ numParity \in 0..(MaxRxSize - numData)
    /\ size \in (numData + numParity)..MaxRxSize
    /\ pending_mask \in SUBSET (0..(size - 1))
    /\ repair_mask = BlockInit(size, FALSE).repair_mask
    /\ erasure_count = Cardinality(pending_mask \cap (0..(numData - 1)))
    /\ parity_count = BlockInit(size, FALSE).parity_count
    /\ parity_offset = BlockInit(size, FALSE).parity_offset
    /\ in_repair = BlockInit(size, FALSE).in_repair
    /\ call = [op |-> "Init", ret |-> TRUE, autoParity |-> 0, repeat |-> FALSE]
    /\ msg = << >>
    /\ committed = FALSE

DoIsRepairPending ==
    LET r == IsRepairPending(Blk, numData, numParity)
    IN  /\ SetBlk(r.blk)
        \* repeat: repair_mask was not empty when the call was made
        /\ call' = [op |-> "IsRepairPending", ret |-> r.ret, autoParity |-> 0,
                    repeat |-> repair_mask # {}]
        /\ UNCHANGED <<numData, numParity, msg, committed, bufVars, iterVars, histVars,
                     poolVars>>

DoAppendRepairRequest ==
    /\ msg' = AppendRepairRequest(Blk, numData, numParity)
    /\ call' = [op |-> "AppendRepairRequest", ret |-> TRUE, autoParity |-> 0,
                repeat |-> FALSE]
    /\ UNCHANGED <<numData, numParity, committed, blockVars, bufVars, iterVars, histVars,
                 poolVars>>

DoAppendRepairAdv ==
    /\ msg' = AppendRepairAdv(Blk)
    /\ call' = [op |-> "AppendRepairAdv", ret |-> TRUE, autoParity |-> 0,
                repeat |-> FALSE]
    /\ UNCHANGED <<numData, numParity, committed, blockVars, bufVars, iterVars, histVars,
                 poolVars>>

NextNack ==
    \/ DoIsRepairPending
    \/ DoAppendRepairRequest
    \/ DoAppendRepairAdv

SpecNack == InitNack /\ [][NextNack]_vars

(***************************************************************************)
(* A segment pool as a state machine.  Init is called when every segment  *)
(* handed out has been put back, which Destroy asserts (line 55); Put is  *)
(* called with a segment that Get handed out and that was not put back.   *)
(***************************************************************************)
SetPool(p) ==
    /\ seg_size' = p.seg_size
    /\ seg_count' = p.seg_count
    /\ seg_total' = p.seg_total
    /\ seg_list' = p.seg_list
    /\ peak_usage' = p.peak_usage
    /\ overruns' = p.overruns
    /\ overrun_flag' = p.overrun_flag

\* the sizes Init is called with: one below and one above a multiple of PtrSize
SegmentSizes == {PtrSize - 1, PtrSize + 1}

\* held without its k-th segment
Without(k) == [i \in 1..(Len(held) - 1) |-> IF i < k THEN held[i] ELSE held[i + 1]]

DoPoolInit(count, bytes, failed) ==
    LET r == PoolInit(Pool, count, bytes, failed)
    IN  /\ held = << >>
        /\ failed => count >= 1
        /\ SetPool(r.pool)
        /\ gets' = << >>
        /\ pool_call' = [op |-> "Init", ret |-> r.ret, count |-> count,
                         inited |-> r.ret]
        /\ UNCHANGED <<held, starved, bufVars, iterVars, histVars, blockVars,
                       sessionVars>>

DoPoolGet ==
    LET r == PoolGet(Pool)
    IN  /\ Len(gets) < MaxGets
        /\ SetPool(r.pool)
        /\ held' = IF r.ret # NoSegment THEN Append(held, r.ret) ELSE held
        /\ gets' = Append(gets, r.ret # NoSegment)
        /\ starved' = (r.ret = NoSegment)
        /\ pool_call' = [pool_call EXCEPT !.op = "Get", !.ret = r.ret # NoSegment]
        /\ UNCHANGED <<bufVars, iterVars, histVars, blockVars, sessionVars>>

DoPoolPut(k) ==
    /\ SetPool(PoolPut(Pool, held[k]))
    /\ held' = Without(k)
    /\ pool_call' = [pool_call EXCEPT !.op = "Put", !.ret = TRUE]
    /\ UNCHANGED <<gets, starved, bufVars, iterVars, histVars, blockVars,
                   sessionVars>>

InitPool == BufferConstructed /\ BlockConstructed /\ PoolConstructed

NextPool ==
    \/ \E count \in 0..MaxCount, bytes \in SegmentSizes, failed \in BOOLEAN :
            DoPoolInit(count, bytes, failed)
    \/ DoPoolGet
    \/ \E k \in 1..Len(held) : DoPoolPut(k)

SpecPool == InitPool /\ [][NextPool]_vars

(***************************************************************************)
(* Properties of the block buffer (specification Spec).                   *)
(***************************************************************************)
SetMin(S) == CHOOSE x \in S : \A y \in S : x <= y

SetMax(S) == CHOOSE x \in S : \A y \in S : x >= y

\* The ids of a set in ascending order.
RECURSIVE Ascending(_)
Ascending(S) ==
    IF S = {} THEN << >> ELSE <<SetMin(S)>> \o Ascending(S \ {SetMin(S)})

RECURSIVE IsPowerOfTwo(_)
IsPowerOfTwo(n) == n = 1 \/ (n > 1 /\ n % 2 = 0 /\ IsPowerOfTwo(n \div 2))

\* The smallest power of two that is at least n.
RECURSIVE PowerOfTwoFrom(_, _)
PowerOfTwoFrom(p, n) == IF p >= n THEN p ELSE PowerOfTwoFrom(2 * p, n)

\* The buffer is initialised and no call is stuck.
Quiescent == table # NullTable /\ ~spin

\* C1: at every quiescent point Find(id) returns a block iff id was inserted
\* by a successful Insert and not removed since; when the buffer is non-empty
\* range_lo is the smallest live id, range_hi the largest and
\* range = range_hi - range_lo + 1; range = 0 when it is empty.
C1_FindAndRangeTrackLiveIds ==
    Quiescent =>
        /\ \A id \in Ids : (Find(Buf, id) # NULL) <=> (id \in live)
        /\ live # {} => /\ range_lo = SetMin(live)
                        /\ range_hi = SetMax(live)
                        /\ range = range_hi - range_lo + 1
        /\ live = {} => range = 0

\* C2: an Insert below range_lo or above range_hi is rejected exactly when the
\* resulting span would exceed range_max; a rejected Insert leaves range,
\* range_lo, range_hi and every chain unchanged; an Insert into an empty
\* buffer or of an id inside [range_lo, range_hi] is never rejected.
C2_InsertRejectsExactlyOnOverflow ==
    Quiescent =>
        \A id \in Ids \ live :
            LET r == Insert(Buf, id)
            IN  /\ (range # 0 /\ id < range_lo) =>
                       (~r.ret <=> range_lo - id + range > range_max)
                /\ (range # 0 /\ id > range_hi) =>
                       (~r.ret <=> id - range_hi + range > range_max)
                /\ ~r.ret => r.buf = Buf
                /\ (range = 0 \/ (id >= range_lo /\ id <= range_hi)) => r.ret

\* A rejected Insert has just been made.
C2_Witness == Quiescent /\ last.op = "Insert" /\ ~last.ret /\ live # {}

\* C3: with the buffer unmodified, the successive GetNextBlock calls of a fresh
\* Iterator return every live block exactly once in ascending id order, and
\* none on every call after that (none at once on an empty buffer).
C3_IteratorYieldsLiveIdsAscending ==
    (iterating /\ ~spin) =>
        \A k \in 1..Len(yielded) :
            yielded[k] = IF k <= Cardinality(live) THEN Ascending(live)[k] ELSE NULL

\* C4: Insert of an id strictly between range_lo and range_hi followed by
\* Remove of it restores range, range_lo, range_hi and all chains; Insert into
\* an empty buffer followed by Remove leaves range = 0 and all chains empty.
C4_InsertThenRemoveRestores ==
    Quiescent =>
        \A id \in Ids \ live :
            LET r == Insert(Buf, id)
                q == Remove(r.buf, id)
            IN  /\ (range # 0 /\ id > range_lo /\ id < range_hi) =>
                       (r.ret /\ q.ret /\ ~q.spin /\ q.buf = Buf)
                /\ live = {} =>
                       /\ r.ret /\ q.ret /\ ~q.spin
                       /\ q.buf.range = 0
                       /\ \A i \in DOMAIN q.buf.table : q.buf.table[i] = << >>

\* An interior block has just been inserted and removed again, out of a
\* bucket that holds other blocks.
C4_Witness ==
    /\ Quiescent
    /\ last.op = "Remove" /\ last.ret /\ last.undo
    /\ range # 0 /\ last.arg > range_lo /\ last.arg < range_hi
    /\ table[Hash(last.arg, hash_mask)] # << >>

\* C5: a successful Init(rangeMax, tableSize) ends with a table size that is
\* tableSize when that is a power of two and the next larger power of two
\* otherwise, so that hash_mask is 2^k - 1 and every bucket index in
\* [0, hash_mask] is the hash of some id.
C5_InitRoundsTableSizeToPowerOfTwo ==
    (last.op = "Init" /\ last.ret) =>
        /\ hash_mask + 1 = PowerOfTwoFrom(1, last.arg)
        /\ IsPowerOfTwo(hash_mask + 1)
        /\ \A i \in 0..hash_mask : \E id \in 0..hash_mask : Hash(id, hash_mask) = i

\* C6: for an id that is not live, CanInsert(id) is true iff Insert of a block
\* with that id in the same state would return true.
C6_CanInsertAgreesWithInsert ==
    Quiescent =>
        \A id \in Ids \ live : CanInsert(Buf, id) <=> Insert(Buf, id).ret

\* CanInsert has just reported that a block cannot be inserted.
C6_Witness == Quiescent /\ last.op = "CanInsert" /\ ~last.ret

\* C7: range never exceeds range_max, and when the buffer is non-empty
\* range_hi - range_lo + 1 does not exceed range_max.
C7_SpanWithinRangeMax ==
    Quiescent =>
        /\ range <= range_max
        /\ live # {} => range_hi - range_lo + 1 <= range_max

\* An Insert has just widened the span to exactly range_max.
C7_Witness ==
    /\ Quiescent
    /\ last.op = "Insert" /\ last.ret
    /\ Cardinality(live) > 1
    /\ last.arg \in {range_lo, range_hi}
    /\ range = range_max

(***************************************************************************)
(* Properties of the sender block (specification SpecBlock).              *)
(***************************************************************************)
\* C8: when TxReset returns true, pending_mask has exactly the bits
\* [0, numData+autoParity) set, repair_mask is empty, parity_offset is
\* autoParity, parity_count is numParity and IN_REPAIR is set.
C8_TxResetInstallsPattern ==
    \A autoParity \in 0..numParity, parityReady \in BOOLEAN :
        LET r == TxReset(Blk, numData, numParity, autoParity, parityReady)
        IN  r.ret =>
                /\ r.blk.pending_mask = 0..(numData + autoParity - 1)
                /\ r.blk.repair_mask = {}
                /\ r.blk.parity_offset = autoParity
                /\ r.blk.parity_count = numParity
                /\ r.blk.in_repair

\* TxReset has just returned true with some but not all of the parity automatic.
C8_Witness ==
    /\ call.op = "TxReset" /\ call.ret
    /\ call.autoParity > 0 /\ call.autoParity < numParity
    /\ pending_mask = 0..(numData + call.autoParity - 1)

\* C9: TxReset returns false exactly when pending_mask already has exactly the
\* bits [0, numData+autoParity) set, whatever repair_mask holds; a second
\* TxReset with the same arguments right after one that returned true returns
\* false and leaves both masks as the first call left them.
C9_TxResetFalseIffPatternPresent ==
    \A autoParity \in 0..numParity, parityReady \in BOOLEAN :
        LET r == TxReset(Blk, numData, numParity, autoParity, parityReady)
            again == TxReset(r.blk, numData, numParity, autoParity, parityReady)
        IN  /\ ~r.ret <=> pending_mask = 0..(numData + autoParity - 1)
            /\ r.ret => /\ ~again.ret
                        /\ again.blk.pending_mask = r.blk.pending_mask
                        /\ again.blk.repair_mask = r.blk.repair_mask

\* The same TxReset has just been made twice in a row; the second returned false.
C9_Witness == call.op = "TxReset" /\ call.repeat /\ ~call.ret

\* C10: TxUpdate never clears a bit of pending_mask, never changes
\* repair_mask, and returns true iff a bit of pending_mask that was clear
\* before the call is set after it.
C10_TxUpdateOnlyAddsPending ==
    \A nextId \in SegmentIds, lastId \in SegmentIds, erasureCount \in ErasureCounts :
        LET r == TxUpdate(Blk, nextId, lastId, numData, numParity, erasureCount)
        IN  /\ pending_mask \subseteq r.blk.pending_mask
            /\ r.blk.repair_mask = repair_mask
            /\ r.ret <=> r.blk.pending_mask # pending_mask

\* TxUpdate has just returned true on a block with staged repairs.
C10_Witness ==
    /\ call.op = "TxUpdate" /\ call.ret
    /\ repair_mask # {}
    /\ pending_mask # {}

\* The parity requests a block of numData + numParity symbols can be sent.
ParityRequests ==
    {q \in [nextId : SegmentIds, lastId : SegmentIds, erasureCount : ErasureCounts] :
        q.nextId >= numData}

\* C11 as stated: a parity request to TxUpdate with erasureCount <=
\* parityAvailable sets exactly the bits
\* [numData+parity_offset+parity_count, numData+parity_offset+erasureCount)
\* and raises parity_count to erasureCount when erasureCount > parity_count,
\* and changes nothing otherwise; with erasureCount > parityAvailable it
\* raises parity_count to parityAvailable, setting the remaining fresh parity
\* bits, advances nextId past the parity region and sets the bits of the
\* residual range up to lastId; parity_offset never changes.
C11_ParityRequestAlwaysAdvances ==
    \A q \in ParityRequests :
        LET parityAvailable == numParity - parity_offset
            fresh == numData + parity_offset + parity_count
            r == TxUpdate(Blk, q.nextId, q.lastId, numData, numParity, q.erasureCount)
        IN  /\ r.blk.parity_offset = parity_offset
            /\ IF q.erasureCount <= parityAvailable
               THEN IF q.erasureCount > parity_count
                    THEN /\ r.blk.pending_mask = pending_mask \cup
                                (fresh..(numData + parity_offset + q.erasureCount - 1))
                         /\ r.blk.parity_count = q.erasureCount
                    ELSE r.blk = Blk
               ELSE /\ r.blk.parity_count =
                           IF parity_count < parityAvailable
                           THEN parityAvailable ELSE parity_count
                    /\ r.blk.pending_mask = pending_mask \cup
                           (fresh..(numData + parity_offset + parityAvailable - 1)) \cup
                           ((q.nextId + parityAvailable)..q.lastId)

\* C11, amended: as above, except that with erasureCount > parityAvailable
\* the fresh parity bits are set, parity_count raised and nextId advanced by
\* parityAvailable only when parity_count < parityAvailable; when
\* parity_count >= parityAvailable the call leaves parity_count alone and
\* sets the bits of [nextId, lastId].
C11_ParityRequest ==
    \A q \in ParityRequests :
        LET parityAvailable == numParity - parity_offset
            fresh == numData + parity_offset + parity_count
            r == TxUpdate(Blk, q.nextId, q.lastId, numData, numParity, q.erasureCount)
        IN  /\ r.blk.parity_offset = parity_offset
            /\ IF q.erasureCount <= parityAvailable
               THEN IF q.erasureCount > parity_count
                    THEN /\ r.blk.pending_mask = pending_mask \cup
                                (fresh..(numData + parity_offset + q.erasureCount - 1))
                         /\ r.blk.parity_count = q.erasureCount
                    ELSE r.blk = Blk
               ELSE IF parity_count < parityAvailable
                    THEN /\ r.blk.parity_count = parityAvailable
                         /\ r.blk.pending_mask = pending_mask \cup
                                (fresh..(numData + parity_offset + parityAvailable - 1))
                                \cup ((q.nextId + parityAvailable)..q.lastId)
                    ELSE /\ r.blk.parity_count = parity_count
                         /\ r.blk.pending_mask = pending_mask \cup (q.nextId..q.lastId)

\* TxUpdate has just taken a parity request for more erasures than there was
\* fresh parity: all the parity is pending and parity_count is numParity.
C11_Witness ==
    /\ call.op = "TxUpdate" /\ call.ret
    /\ numParity > 0 /\ parity_offset = 0 /\ parity_count = numParity
    /\ (numData..(numData + numParity - 1)) \subseteq pending_mask
    /\ ~((0..(numData - 1)) \subseteq pending_mask)

\* C12: HandleSegmentRequest does to repair_mask exactly what TxUpdate does
\* to pending_mask: on a block that has this block's parity_offset and
\* parity_count and whose pending_mask is this block's repair_mask, TxUpdate
\* with the same arguments returns the same value, ends with the same
\* parity_offset and parity_count and with pending_mask equal to the
\* repair_mask HandleSegmentRequest ends with; HandleSegmentRequest leaves
\* pending_mask unchanged.
C12_HandleSegmentRequestMirrorsTxUpdate ==
    \A nextId \in SegmentIds, lastId \in SegmentIds, erasureCount \in ErasureCounts :
        LET other == [Blk EXCEPT !.pending_mask = repair_mask]
            h == HandleSegmentRequest(Blk, nextId, lastId, numData, numParity,
                                      erasureCount)
            t == TxUpdate(other, nextId, lastId, numData, numParity, erasureCount)
        IN  /\ h.ret = t.ret
            /\ h.blk.parity_offset = t.blk.parity_offset
            /\ h.blk.parity_count = t.blk.parity_count
            /\ h.blk.repair_mask = t.blk.pending_mask
            /\ h.blk.pending_mask = pending_mask

\* HandleSegmentRequest has just staged a repair on a block whose two masks
\* differ.
C12_Witness ==
    /\ call.op = "HandleSegmentRequest" /\ call.ret
    /\ repair_mask # {} /\ pending_mask # {}
    /\ repair_mask # pending_mask

\* C13: ActivateRepairs sets pending_mask to the union of the pending_mask
\* and the repair_mask it was called with, leaves repair_mask empty, changes
\* neither parity_offset nor parity_count, and returns true iff repair_mask
\* was non-empty before the call.
C13_ActivateRepairsCommitsStaged ==
    LET r == ActivateRepairs(Blk, numParity)
    IN  /\ r.blk.pending_mask = pending_mask \cup repair_mask
        /\ r.blk.repair_mask = {}
        /\ r.blk.parity_offset = parity_offset
        /\ r.blk.parity_count = parity_count
        /\ r.ret <=> repair_mask # {}

\* ActivateRepairs has just committed staged repairs into a pending_mask that
\* has other bits too.
C13_Witness ==
    /\ call.op = "ActivateRepairs" /\ call.ret
    /\ repair_mask = {}
    /\ pending_mask # {} /\ pending_mask # SegmentIds

(***************************************************************************)
(* Properties of the receiver block (specification SpecNack).             *)
(***************************************************************************)
\* the n lowest ids of a set of ids
Lowest(S, n) == {i \in S : Cardinality({j \in S : j < i}) < n}

\* The covered set of the erasure/parity policy: what parity the receiver
\* asks for or does not need will fill.
Covered ==
    IF erasure_count <= numParity
    THEN (0..(numData - 1)) \cup ((numData + erasure_count)..(numData + numParity - 1))
    ELSE IF numParity > 0
         THEN Lowest(pending_mask, numParity)
         ELSE IF size > numData THEN numData..(size - 1) ELSE {}

\* C14 as stated: IsRepairPending returns false iff every set bit of
\* pending_mask lies in the covered set.
C14_FalseIffPendingCovered ==
    ~IsRepairPending(Blk, numData, numParity).ret <=> pending_mask \subseteq Covered

\* C14, amended: IsRepairPending returns false iff every set bit of
\* pending_mask lies in the covered set or was set in repair_mask when the
\* call was made.
C14_FalseIffPendingCoveredOrStaged ==
    ~IsRepairPending(Blk, numData, numParity).ret
        <=> pending_mask \subseteq (Covered \cup repair_mask)

\* IsRepairPending, called with a repair_mask that was not empty, has just
\* returned false although pending bits lie outside the covered set.
C14_Witness ==
    /\ call.op = "IsRepairPending" /\ call.repeat /\ ~call.ret
    /\ ~(pending_mask \subseteq Covered)

\* C15 as stated: after IsRepairPending, repair_mask holds exactly the set
\* bits of pending_mask that lie outside the covered set, and pending_mask,
\* erasure_count, parity_offset and parity_count are as before the call.
C15_RepairMaskIsUncoveredPending ==
    LET r == IsRepairPending(Blk, numData, numParity)
    IN  /\ r.blk.repair_mask = pending_mask \ Covered
        /\ r.blk.pending_mask = pending_mask
        /\ r.blk.erasure_count = erasure_count
        /\ r.blk.parity_offset = parity_offset
        /\ r.blk.parity_count = parity_count

\* C15, amended: after IsRepairPending, repair_mask holds exactly the set
\* bits of pending_mask that lie outside the covered set and were not set in
\* repair_mask when the call was made; pending_mask, erasure_count,
\* parity_offset and parity_count are as before the call.
C15_RepairMaskIsUncoveredUnstagedPending ==
    LET r == IsRepairPending(Blk, numData, numParity)
    IN  /\ r.blk.repair_mask = pending_mask \ (Covered \cup repair_mask)
        /\ r.blk.pending_mask = pending_mask
        /\ r.blk.erasure_count = erasure_count
        /\ r.blk.parity_offset = parity_offset
        /\ r.blk.parity_count = parity_count

\* IsRepairPending has just left in repair_mask some but not all of the
\* pending bits of a block that lacks more data than there is parity.
C15_Witness ==
    /\ call.op = "IsRepairPending" /\ call.ret
    /\ erasure_count > numParity /\ numParity > 0
    /\ repair_mask # {} /\ repair_mask # pending_mask
    /\ repair_mask \subseteq pending_mask

\* the ids first..last in ascending order
IdsFrom(firstId, lastId) == [i \in 1..(lastId - firstId + 1) |-> firstId + i - 1]

\* The ids a message encodes, in the order a receiver of it decodes them:
\* each item, and each id of each first-last range.
RECURSIVE Decode(_)
Decode(m) ==
    IF m = << >>
    THEN << >>
    ELSE (IF Head(m).op = "Item" THEN <<Head(m).first>>
          ELSE IF Head(m).op = "Range" THEN IdsFrom(Head(m).first, Head(m).last)
          ELSE << >>) \o Decode(Tail(m))

\* the ids of a set in ascending order
RECURSIVE Sorted(_)
Sorted(S) ==
    IF S = {} THEN << >>
    ELSE LET lo == CHOOSE i \in S : \A j \in S : i <= j
         IN  <<lo>> \o Sorted(S \ {lo})

\* The window of AppendRepairRequest: after the first numParity pending bits
\* and up to numData + numParity when erasure_count > numParity, otherwise
\* from numData up to numData + erasure_count.
InWindow(i) ==
    IF erasure_count > numParity
    THEN i \notin Lowest(pending_mask, numParity) /\ i < numData + numParity
    ELSE i >= numData /\ i < numData + erasure_count

\* C16: the ids AppendRepairRequest encodes, items and expanded ranges, are
\* exactly the ids set in pending_mask inside its window, each once and in
\* ascending order; no id that is clear in pending_mask is encoded.
C16_RequestEncodesPendingInWindow ==
    Decode(AppendRepairRequest(Blk, numData, numParity))
        = Sorted({i \in pending_mask : InWindow(i)})

\* The appends a walk of the ids S makes when every maximal run of
\* consecutive ids is one unit: one or two items for a run of one or two
\* ids, one first-last range for a longer run.
RECURSIVE UnitsOf(_)
UnitsOf(S) ==
    IF S = {}
    THEN << >>
    ELSE LET a == CHOOSE i \in S : \A j \in S : i <= j
             b == CHOOSE j \in S : /\ \A k \in a..j : k \in S
                                   /\ j + 1 \notin S
         IN  (IF b = a THEN <<Item(a)>>
              ELSE IF b = a + 1 THEN <<Item(a), Item(b)>>
              ELSE <<Range(a, b)>>) \o UnitsOf(S \ (a..b))

IsAppend(e) == e.op \in {"Item", "Range"}

\* the form of the request the k-th call of m is made on
FormAt(m, k) ==
    LET set == {j \in 1..(k - 1) : m[j].op = "SetForm"}
    IN  IF set = {} THEN "INVALID"
        ELSE m[CHOOSE j \in set : \A i \in set : i <= j].form

\* m appends its ids run by run, items under ITEMS and ranges under RANGES
RunByRun(m) ==
    /\ SelectSeq(m, IsAppend) = UnitsOf({Decode(m)[k] : k \in 1..Len(Decode(m))})
    /\ \A k \in 1..Len(m) :
          /\ m[k].op = "Item" => FormAt(m, k) = "ITEMS"
          /\ m[k].op = "Range" => FormAt(m, k) = "RANGES"

\* the receiver block of the form selection example
ExampleBlock ==
    [size |-> 20, pending_mask |-> {3, 7, 8, 9, 10, 15}, repair_mask |-> {},
     erasure_count |-> 6, parity_count |-> 0, parity_offset |-> 0,
     in_repair |-> FALSE]

\* C17: AppendRepairRequest and AppendRepairAdv emit every maximal run of
\* consecutive walked ids as one unit whose form depends on the run length
\* only: a run of 1 or 2 ids as 1 or 2 items under ITEMS, a longer run as one
\* first-last pair under RANGES; AppendRepairAdv walks the bits of
\* repair_mask.  Pending bits {3, 7, 8, 9, 10, 15} with numData = 16,
\* erasure_count = 6 and numParity = 0 give ITEMS{3}, RANGES{7..10}, ITEMS{15}.
C17_RunsChooseTheForm ==
    /\ RunByRun(AppendRepairRequest(Blk, numData, numParity))
    /\ RunByRun(AppendRepairAdv(Blk))
    /\ SelectSeq(AppendRepairAdv(Blk), IsAppend) = UnitsOf(repair_mask)
    /\ AppendRepairRequest(ExampleBlock, 16, 0)
         = <<Attach, SetForm("ITEMS"), Item(3), Pack,
             Attach, SetForm("RANGES"), Range(7, 10), Pack,
             Attach, SetForm("ITEMS"), Item(15), Pack>>

\* AppendRepairRequest has just made a request that holds a range and an item.
C17_Witness ==
    /\ call.op = "AppendRepairRequest"
    /\ \E k \in 1..Len(msg) : msg[k].op = "Range" /\ msg[k].last >= msg[k].first + 2
    /\ \E k \in 1..Len(msg) : msg[k].op = "Item"
    /\ msg = AppendRepairRequest(Blk, numData, numParity)

(***************************************************************************)
(* Properties of the segment pool (specification SpecPool).               *)
(***************************************************************************)
\* C18: after a successful Init(count, size) and any Gets and Puts,
\* seg_count plus the number of handed-out segments equals seg_total, which
\* equals count; 0 <= seg_count <= seg_total; and the handed-out segments are
\* pairwise distinct.
C18_PoolConservesSegments ==
    pool_call.inited =>
        /\ seg_count + Len(held) = seg_total
        /\ seg_total = pool_call.count
        /\ 0 <= seg_count /\ seg_count <= seg_total
        /\ \A i \in 1..Len(held), j \in 1..Len(held) : i # j => held[i] # held[j]

\* A segment has just been put back while another is still handed out and
\* after a Get found the pool empty.
C18_Witness ==
    /\ pool_call.inited /\ pool_call.op = "Put"
    /\ Len(held) >= 1 /\ seg_count >= 1
    /\ \E k \in 1..Len(gets) : ~gets[k]

\* the exhaustion episodes of a sequence of Gets: the failed Gets that are
\* the first Get or follow a Get that succeeded
Episodes(g) ==
    Cardinality({k \in 1..Len(g) : ~g[k] /\ (k = 1 \/ g[k - 1])})

\* C19: over any sequence of Init, Get and Put, overruns is the number of
\* distinct exhaustion episodes since the last Init: a failed Get increments
\* it exactly when it is the first failed Get since Init or since the last
\* successful Get; and overrun_flag is true exactly from a failed Get until
\* the next successful Get.
C19_OverrunsCountsEpisodes ==
    /\ overruns = Episodes(gets)
    /\ overrun_flag = starved

(***************************************************************************)
(* Termination of the bucket scans (specification Spec).                  *)
(***************************************************************************)
\* the buckets a scan that steps upwards from bucket i visits in n steps
RECURSIVE BucketsAfter(_, _)
BucketsAfter(i, n) ==
    IF n = 0
    THEN {}
    ELSE LET j == BitAnd(U32(i + 1), hash_mask)
         IN  {j} \cup BucketsAfter(j, n - 1)

\* A call is stuck for good: a Remove is stuck in its scan, or a GetNextBlock
\* is stuck in a scan all of whose buckets are empty, so that it can neither
\* reach its end bucket nor ever match an id.
StuckForGood ==
    /\ spin
    /\ \/ last.op = "Remove"
       \/ /\ last.op = "GetNextBlock"
          /\ \A i \in BucketsAfter(index, hash_mask + 2) : table[i] = << >>

\* C20: every call of Remove and of Iterator::GetNextBlock terminates, for
\* every table size Init accepts and every set of live ids: no call is left
\* in a bucket scan that reaches neither its end bucket nor an id match.
C20_ScansTerminate == ~StuckForGood

(***************************************************************************)
(* The order of the calls AppendRepairRequest and AppendRepairAdv make on *)
(* the message (specification SpecNack).                                   *)
(***************************************************************************)
IsMessageCall(e) == e.op \in {"Attach", "Item", "Range", "Pack"}

\* m is a sequence of requests, each one attach, one or more appends, one
\* pack; attached tells whether a request is attached and not yet packed
\* when m begins, and appended how many appends were made to it.
RECURSIVE Bracketed(_, _, _)
Bracketed(m, attached, appended) ==
    IF m = << >>
    THEN ~attached
    ELSE IF Head(m).op = "Attach"
         THEN ~attached /\ Bracketed(Tail(m), TRUE, 0)
    ELSE IF Head(m).op = "Pack"
         THEN attached /\ appended >= 1 /\ Bracketed(Tail(m), FALSE, 0)
    ELSE IF IsAppend(Head(m))
         THEN attached /\ Bracketed(Tail(m), TRUE, appended + 1)
    ELSE Bracketed(Tail(m), attached, appended)

\* the maximal runs of consecutive ids of S, lowest first
RECURSIVE RunsOf(_)
RunsOf(S) ==
    IF S = {}
    THEN << >>
    ELSE LET a == CHOOSE i \in S : \A j \in S : i <= j
             b == CHOOSE j \in S : /\ \A k \in a..j : k \in S
                                   /\ j + 1 \notin S
         IN  <<[first |-> a, last |-> b]>> \o RunsOf(S \ (a..b))

\* the form a run is emitted in
RunForm(r) == IF r.last - r.first + 1 <= 2 THEN "ITEMS" ELSE "RANGES"

\* The calls on the message that the runs ask for when a request is attached
\* exactly where the form of a run differs from the form of the run before
\* it (prevForm; "INVALID" before the first run) and is packed before the
\* next attach and after the last run.
RECURSIVE CallsFor(_, _)
CallsFor(runs, prevForm) ==
    IF runs = << >>
    THEN IF prevForm # "INVALID" THEN <<Pack>> ELSE << >>
    ELSE LET form == RunForm(Head(runs))
         IN  (IF form = prevForm THEN << >>
              ELSE IF prevForm = "INVALID" THEN <<Attach>>
              ELSE <<Pack, Attach>>)
             \o UnitsOf(Head(runs).first..Head(runs).last)
             \o CallsFor(Tail(runs), form)

\* the ids m encodes
Walked(m) == {Decode(m)[k] : k \in 1..Len(Decode(m))}

InOrder(m) ==
    /\ Bracketed(m, FALSE, 0)
    /\ SelectSeq(m, IsMessageCall) = CallsFor(RunsOf(Walked(m)), "INVALID")
    /\ Walked(m) = {} => m = << >>

\* a receiver block whose pending bits make two runs of one form in a row
OrderExampleBlock ==
    [size |-> 20, pending_mask |-> {1, 3, 5, 6, 7, 9}, repair_mask |-> {},
     erasure_count |-> 6, parity_count |-> 0, parity_offset |-> 0,
     in_repair |-> FALSE]

\* C21: during one AppendRepairRequest or AppendRepairAdv call the calls on
\* the message are attach, one or more appends, pack, repeated: a request is
\* attached exactly when the form of a closing run differs from the form
\* emitted before it (or the run is the first), every attached request is
\* packed once before the next attach or before the return, every item and
\* range is appended to the attached and not yet packed request, and a call
\* that walks no id attaches and packs nothing.
C21_AttachAppendPack ==
    /\ InOrder(AppendRepairRequest(Blk, numData, numParity))
    /\ InOrder(AppendRepairAdv(Blk))
    /\ repair_mask = {} => AppendRepairAdv(Blk) = << >>
    /\ SelectSeq(AppendRepairRequest(OrderExampleBlock, 16, 0), IsMessageCall)
         = <<Attach, Item(1), Item(3), Pack, Attach, Range(5, 7), Pack,
             Attach, Item(9), Pack>>

\* AppendRepairRequest has just packed one request and attached another, and
\* AppendRepairAdv would do so too.
C21_Witness ==
    /\ call.op = "AppendRepairRequest"
    /\ msg = AppendRepairRequest(Blk, numData, numParity)
    /\ \E j, k \in 1..Len(msg) :
          j + 1 = k /\ msg[j].op = "Pack" /\ msg[k].op = "Attach"
    /\ \E j \in 1..Len(AppendRepairAdv(Blk)) :
          j > 1 /\ AppendRepairAdv(Blk)[j].op = "Attach"

(***************************************************************************)
(* Properties of the repair cycle of the sender block (specification      *)
(* SpecBlock).                                                             *)
(***************************************************************************)
\* C22: after a TxReset that returned true, and after an explicit data
\* request (nextId < numData) handled by TxUpdate or HandleSegmentRequest,
\* no later parity request allocates fresh parity until the next TxReset:
\* parity_count stays numParity, a parity request with
\* erasureCount <= numParity - parity_offset changes nothing and returns
\* false, and one with a larger erasureCount sets the bits [nextId, lastId]
\* of its mask and nothing else.
C22_CommittedCycleAllocatesNoParity ==
    committed =>
        /\ parity_count = numParity
        /\ \A nextId \in SegmentIds, lastId \in SegmentIds,
              erasureCount \in ErasureCounts :
              (numData <= nextId /\ nextId <= lastId) =>
                  LET u == TxUpdate(Blk, nextId, lastId, numData, numParity,
                                    erasureCount)
                      h == HandleSegmentRequest(Blk, nextId, lastId, numData,
                                                numParity, erasureCount)
                  IN  IF erasureCount <= numParity - parity_offset
                      THEN /\ ~u.ret /\ u.blk = Blk
                           /\ ~h.ret /\ h.blk = Blk
                      ELSE /\ u.blk = [Blk EXCEPT !.pending_mask =
                                           pending_mask \cup (nextId..lastId)]
                           /\ h.blk = [Blk EXCEPT !.repair_mask =
                                           repair_mask \cup (nextId..lastId)]

\* In a committed cycle that has parity left over (parity_offset < numParity)
\* HandleSegmentRequest has just staged bits for a parity request: no data
\* bit is staged and the call reported an increase.
C22_Witness ==
    /\ committed
    /\ parity_offset < numParity
    /\ call.op = "HandleSegmentRequest" /\ call.ret
    /\ repair_mask # {}
    /\ repair_mask \cap (0..(numData - 1)) = {}

\* C23: a TxReset call that returns false changes nothing in the block:
\* pending_mask, repair_mask (with the repair bits HandleSegmentRequest
\* staged earlier), parity_offset, parity_count, erasure_count and the
\* IN_REPAIR flag are after the call what they were before it.
C23_FalseTxResetChangesNothing ==
    \A autoParity \in 0..numParity, parityReady \in BOOLEAN :
        LET r == TxReset(Blk, numData, numParity, autoParity, parityReady)
        IN  ~r.ret => r.blk = Blk

\* C24: from a block state whose repair_mask is empty,
\* HandleSegmentRequest(nextId, lastId, numData, numParity, erasureCount)
\* followed by ActivateRepairs gives the pending_mask, parity_offset and
\* parity_count that one TxUpdate with the same arguments gives from that
\* state, and leaves repair_mask empty again.
C24_StageThenActivateIsTxUpdate ==
    repair_mask = {} =>
        \A nextId \in SegmentIds, lastId \in SegmentIds,
           erasureCount \in ErasureCounts :
            LET h == HandleSegmentRequest(Blk, nextId, lastId, numData, numParity,
                                          erasureCount)
                a == ActivateRepairs(h.blk, numParity)
                u == TxUpdate(Blk, nextId, lastId, numData, numParity, erasureCount)
            IN  /\ a.blk.pending_mask = u.blk.pending_mask
                /\ a.blk.parity_offset = u.blk.parity_offset
                /\ a.blk.parity_count = u.blk.parity_count
                /\ a.blk.repair_mask = {}

\* In a cycle with no TxReset and no explicit data request so far,
\* ActivateRepairs has just moved staged fresh parity into pending_mask.
C24_Witness ==
    /\ call.op = "ActivateRepairs" /\ call.ret
    /\ ~committed
    /\ repair_mask = {}
    /\ parity_count >= 1
    /\ pending_mask # {} /\ pending_mask \cap (0..(numData - 1)) = {}

(***************************************************************************)
(* The decision to send a NACK and the content of the NACK                *)
(* (specification SpecNack).                                               *)
(***************************************************************************)
\* C25: for every receiver block state, IsRepairPending(numData, numParity)
\* returns true iff AppendRepairRequest with the same numData and numParity,
\* on the same pending_mask and erasure_count, encodes at least one id.  It
\* is stated here for the blocks the claim is surest about: blocks of exactly
\* numData + numParity symbols on which IsRepairPending has left nothing in
\* repair_mask.
C25_PendingIffRequestEncodes ==
    (repair_mask = {} /\ size = numData + numParity) =>
        (IsRepairPending(Blk, numData, numParity).ret
            <=> Decode(AppendRepairRequest(Blk, numData, numParity)) # << >>)

(***************************************************************************)
(* The parity fields and the masks of the sender block stay inside the    *)
(* block (specification SpecBlock).                                        *)
(***************************************************************************)
InsideBlock(b) ==
    /\ b.parity_offset <= numParity
    /\ b.parity_count <= numParity
    /\ b.pending_mask \subseteq 0..(numData + numParity - 1)
    /\ b.repair_mask \subseteq 0..(numData + numParity - 1)

\* C26: in every state reached from NormBlock::Init by TxReset, TxUpdate,
\* HandleSegmentRequest and ActivateRepairs, called with one numData and
\* numParity on a block of numData + numParity symbols, with
\* autoParity <= numParity and lastId < numData + numParity:
\* parity_offset <= numParity, parity_count <= numParity, and no operation
\* sets a bit of pending_mask or repair_mask at an index of
\* numData + numParity or more, whatever erasureCount is.
C26_ParityAndMasksStayInsideBlock ==
    /\ InsideBlock(Blk)
    /\ \A autoParity \in 0..numParity, parityReady \in BOOLEAN :
          InsideBlock(TxReset(Blk, numData, numParity, autoParity, parityReady).blk)
    /\ InsideBlock(ActivateRepairs(Blk, numParity).blk)
    /\ \A nextId \in SegmentIds, lastId \in SegmentIds,
          erasureCount \in ErasureCounts :
          /\ InsideBlock(TxUpdate(Blk, nextId, lastId, numData, numParity,
                                  erasureCount).blk)
          /\ InsideBlock(HandleSegmentRequest(Blk, nextId, lastId, numData,
                                              numParity, erasureCount).blk)

\* With no TxReset and no explicit data request made, TxUpdate has just
\* allocated fresh parity up to the last symbol of the block.
C26_Witness ==
    /\ call.op = "TxUpdate" /\ call.ret
    /\ ~committed
    /\ numParity >= 1
    /\ parity_offset + parity_count = numParity
    /\ (numData + numParity - 1) \in pending_mask

(***************************************************************************)
(* NormBlockBuffer::Destroy (specification Spec).                          *)
(***************************************************************************)
\* the blocks linked in the bucket chains of a table
Linked(t) == UNION {{t[i][k] : k \in 1..Len(t[i])} : i \in DOMAIN t}

\* C27: Destroy called on a buffer that still holds blocks removes every
\* remaining block from the table and disposes of it before the table is
\* released: every block that was linked is deleted, and no block is linked
\* in a bucket chain of the table when it is released.
C27_DestroyRemovesEveryBlock ==
    (Quiescent /\ Idle) =>
        /\ Destroy(Buf).disposed = Linked(table)
        /\ Linked(Destroy(Buf).released) = {}

====
